---- MODULE Spec2Model ----
(***************************************************************************)
(* doc_analyzer: the batch-run poller (app/batch_processor.py), the ORM    *)
(* schema (app/models.py) and the operations of the dashboard              *)
(* (app/main.py) as a state machine.                                       *)
(*                                                                         *)
(* Modelling notes.                                                        *)
(*  - The database is the persisted state: runs, results, feedback,        *)
(*    documents, docSets.  A session's writes become visible at commit;    *)
(*    every handler commits at most once, so a handler is one step.        *)
(*  - process_batch_run contains no await that suspends (the awaited       *)
(*    process_document_with_prompt never yields), so on the event loop a   *)
(*    started task runs to its end before any handler or tick.  The model  *)
(*    shows its steps (start, one step per pair, finish) and lets no       *)
(*    handler run while a task is between start and end.  A task that was  *)
(*    launched by create_task but has not started is in `queue`; handlers  *)
(*    already in the loop's ready list can run before it, the next tick    *)
(*    (60 s later) cannot.                                                 *)
(*  - Widget values read by a handler (schedule_time, reject_reason,       *)
(*    rating_select, names, selected_prompts) are the handler's inputs.    *)
(*  - The database file outlives the process: Init draws its rows from     *)
(*    what the schema admits and the seeding script writes.                *)
(*  - BatchRun rows are taken as main.py and sample_data.py write them     *)
(*    (description, rejection_reason, scheduled_for = None at creation):   *)
(*    the table behind the session accepts them.  models.py declares       *)
(*    scheduled_for NOT NULL and no description column; against a table    *)
(*    created from that declaration no handler of main.py could commit a   *)
(*    BatchRun at all.                                                     *)
(*  - Faults.  An exception inside a tick leaves what the tick committed   *)
(*    and created before it (TickRaise).  A crash of the process ends the  *)
(*    executing task and the pages' state and keeps the database; the      *)
(*    restart is part of the same step (ProcessCrash).                     *)
(*  - Start-up.  Whether an event loop is running while main.py is         *)
(*    imported is decided by the host (Startup); the specifications that   *)
(*    do not start at the import begin with the poller at its sleep.       *)
(*  - `uncaught` records that an exception left an event handler; the      *)
(*    framework logs it and goes on serving.                               *)
(*  - Relationships.  A list such as BatchRun.documents is stored as rows  *)
(*    of its association table, which may repeat (the tables have no key); *)
(*    loading it yields each object once, in the order of the rows         *)
(*    (Unique).                                                            *)
(*  - Sessions.  `tick_db_open` is the state of the session bound to the   *)
(*    local `db` of the poller's coroutine; the session of a               *)
(*    process_batch_run task is open exactly while the task executes.      *)
(***************************************************************************)
EXTENDS Integers, Sequences, FiniteSets, TLC

\* ------------------------------------------------------------------ bounds
NumDocs == 2
NumPrompts == 2
MaxTime == 1
MaxRuns == 2
MaxFeedback == 2
MaxSets == 2
MaxFailures == 1

Docs == 1..NumDocs
Prompts == 1..NumPrompts
Times == 0..MaxTime

\* None for a DateTime column, an Integer column or id, and a String column
NoTime == -1
NoId == 0
None == <<"None">>

\* ------------------------------------------------------------ pure helpers
RECURSIVE SeqToSet(_)
SeqToSet(s) == IF s = <<>> THEN {} ELSE {Head(s)} \cup SeqToSet(Tail(s))

\* `x in list`
InList(x, s) == \E i \in 1..Len(s) : s[i] = x

\* number of occurrences of x in the list s
RECURSIVE CountIn(_, _)
CountIn(x, s) ==
    IF s = <<>> THEN 0
    ELSE (IF Head(s) = x THEN 1 ELSE 0) + CountIn(x, Tail(s))

\* the elements of a set of integers in ascending order (rows by primary key)
RECURSIVE SortedSeq(_)
SortedSeq(S) ==
    IF S = {} THEN <<>>
    ELSE LET m == CHOOSE x \in S : \A y \in S : x <= y
         IN <<m>> \o SortedSeq(S \ {m})

\* str.lower() on a character and on a string
LowerChar(c) == IF c = "A" THEN "a" ELSE IF c = "B" THEN "b" ELSE c
Lower(s) == [i \in 1..Len(s) |-> LowerChar(s[i])]

\* str.startswith / str.endswith / `in` on strings
StartsWith(v, q) == Len(q) <= Len(v) /\ SubSeq(v, 1, Len(q)) = q
EndsWith(v, q) == Len(q) <= Len(v) /\ SubSeq(v, Len(v) - Len(q) + 1, Len(v)) = q
Contains(v, q) ==
    \E i \in 1..(Len(v) - Len(q) + 1) : SubSeq(v, i, i + Len(q) - 1) = q

\* the operators process_document_queries knows
Operators == {"contains", "equals", "startswith", "endswith"}

\* getattr(document, query.query_type)
GetAttr(doc, query_type) ==
    IF query_type = "name" THEN doc.name
    ELSE IF query_type = "content" THEN doc.content
    ELSE doc.file_type

\* mutant of Matches: the document's value is compared as it is stored
MatchesCaseSensitive(doc, q) ==
    LET value == GetAttr(doc, q.query_type) IN
    IF q.operator = "contains" THEN Contains(value, Lower(q.query_value))
    ELSE IF q.operator = "equals" THEN Lower(q.query_value) = value
    ELSE IF q.operator = "startswith" THEN StartsWith(value, Lower(q.query_value))
    ELSE IF q.operator = "endswith" THEN EndsWith(value, Lower(q.query_value))
    ELSE FALSE

\* lines 74-84 of process_document_queries: the match of one query
Matches(doc, q) ==
    LET value == GetAttr(doc, q.query_type) IN
    IF q.operator = "contains" THEN Contains(Lower(value), Lower(q.query_value))
    ELSE IF q.operator = "equals" THEN Lower(q.query_value) = Lower(value)
    ELSE IF q.operator = "startswith" THEN StartsWith(Lower(value), Lower(q.query_value))
    ELSE IF q.operator = "endswith" THEN EndsWith(Lower(value), Lower(q.query_value))
    ELSE FALSE

\* value.lower() on None raises AttributeError (only the four branches call it)
QueryRaises(doc, q) ==
    q.operator \in Operators /\ GetAttr(doc, q.query_type) = None


\* -------------------------------------------------------------------- state
VARIABLES
    now,                        \* datetime.utcnow()
    documents,                  \* table documents: id -> row
    docSets,                    \* table document_sets with its document list and queries
    runs,                       \* table batch_runs with its document and prompt lists
    results,                    \* table results
    feedback,                   \* table feedback
    queue,                      \* tasks made by create_task, not yet started
    task,                       \* the process_batch_run task that is executing
    statusBy,                   \* per run: the operation that wrote its status
    runs_table,                 \* BatchRunScheduler: rows rendered with Approve/Reject
    current_run_id,             \* BatchRunScheduler.current_run_id
    selected_documents,         \* SharedState.selected_documents
    selected_document_details,  \* key set of SharedState.selected_document_details
    current_results,            \* PromptManager.current_results
    results_to_save,            \* PromptManager.results_to_save (unset until show_save_dialog)
    flag,                       \* os.getenv('ENABLE_BATCH_PROCESSOR')
    poller,                     \* the coroutine check_and_process_scheduled_runs
    promptSets,                 \* table prompt_sets with its prompt list and queries
    uncaught,                   \* an exception left an event handler
    results_rows,               \* ResultsViewer.results_table.rows
    tick_db_open                \* the session bound to the tick's local `db` is open

vars == <<now, documents, docSets, runs, results, feedback, queue, task, statusBy,
          runs_table, current_run_id, selected_documents, selected_document_details,
          current_results, results_to_save, flag, poller, promptSets, uncaught,
          results_rows, tick_db_open>>

\* written only by start-up, faults, the handlers without a try block and the
\* Results Viewer
frameVars == <<flag, poller, promptSets, uncaught, results_rows, tick_db_open>>

dbVars == <<documents, docSets, runs, results, feedback, statusBy>>
pollerVars == <<queue, task>>
schedulerVars == <<runs_table, current_run_id>>
selectionVars == <<selected_documents, selected_document_details>>
promptManagerVars == <<current_results, results_to_save>>

RunIds == 1..Len(runs)
SetIds == 1..Len(docSets)
ResultIds == 1..Len(results)

IdleTask == [pc |-> "idle", run |-> NoId, k |-> 0, success |-> TRUE]
\* ui.run serves the pages (with the poller, or without it)
Serving == poller \in {"sleeping", "off"}

\* no task is executing: a handler, a tick or the next task can run
Idle == Serving /\ task.pc = "idle"

\* the attribute is not set on the instance
Unset == <<[document_id |-> NoId, prompt_id |-> NoId]>>

\* Result rows of one run
ResultsOf(r) == {i \in ResultIds : results[i].batch_run_id = r}

\* Document.sets of a document: the sets whose list holds it
SetsOf(d) == {s \in SetIds : InList(d, docSets[s].documents)}

\* --------------------------------------------- set-membership query evaluator
\* some query of some set raises on this document
EvaluationRaises(d, sets) ==
    \E s \in 1..Len(sets) : \E i \in 1..Len(sets[s].queries) :
        QueryRaises(documents[d], sets[s].queries[i])

\* lines 73-88 for the queries of one set as the session sees them: the list
\* when the inner loop ends or when a query raises
RECURSIVE RunQueries(_, _, _)
RunQueries(d, docList, queries) ==
    IF queries = <<>> THEN [documents |-> docList, raised |-> FALSE]
    ELSE LET q == Head(queries) IN
         IF QueryRaises(documents[d], q)
         THEN [documents |-> docList, raised |-> TRUE]
         ELSE RunQueries(d,
                         IF Matches(documents[d], q) /\ ~InList(d, docList)
                         THEN Append(docList, d)
                         ELSE docList,
                         Tail(queries))

\* lines 72-88 from set s on: the sets of the session when the loops end or
\* when a query raises
RECURSIVE RunSets(_, _, _)
RunSets(d, sets, s) ==
    IF s > Len(sets) THEN [sets |-> sets, raised |-> FALSE]
    ELSE LET o == RunQueries(d, sets[s].documents, sets[s].queries)
             next == [sets EXCEPT ![s].documents = o.documents]
         IN IF o.raised THEN [sets |-> next, raised |-> TRUE]
            ELSE RunSets(d, next, s + 1)

\* mutant of ProcessDocumentQueries: the handler commits what the session holds
ProcessDocumentQueriesCommitInExcept(d, sets) == RunSets(d, sets, 1).sets

\* process_document_queries: db.commit() of line 90 after the loops, or
\* db.rollback() of line 93 when a query raised
ProcessDocumentQueries(d, sets) ==
    LET o == RunSets(d, sets, 1) IN
    IF o.raised THEN sets ELSE o.sets

\* lines 106-107: the loop over new_documents
RECURSIVE ProcessAll(_, _)
ProcessAll(ds, sets) ==
    IF ds = <<>> THEN sets
    ELSE ProcessAll(Tail(ds), ProcessDocumentQueries(Head(ds), sets))

\* mutant of NewDocuments: the filter on Document.sets is missing
AllDocuments == SortedSeq(Docs)

\* lines 102-104: documents not in any set
NewDocuments == SortedSeq({d \in Docs : SetsOf(d) = {}})

\* mutant of PendingRuns: the filter on scheduled_for is missing
PendingRunsAnyTime ==
    SortedSeq({r \in RunIds : runs[r].status = "pending"})

\* mutant of PendingRuns: the tick's query also returns the running runs
PendingRunsOrRunning ==
    SortedSeq({r \in RunIds : /\ runs[r].status \in {"pending", "running"}
                              /\ runs[r].scheduled_for # NoTime
                              /\ runs[r].scheduled_for <= now})

\* lines 110-115: the runs the tick's query returns
PendingRuns ==
    SortedSeq({r \in RunIds : /\ runs[r].status = "pending"
                              /\ runs[r].scheduled_for # NoTime
                              /\ runs[r].scheduled_for <= now})


\* ------------------------------------------------------------ batch-run poller
\* time passes
AdvanceClock ==
    /\ now < MaxTime
    /\ now' = now + 1
    /\ UNCHANGED <<frameVars, dbVars, pollerVars, schedulerVars, selectionVars, promptManagerVars>>

\* one tick of check_and_process_scheduled_runs: documents in no set are
\* evaluated against the saved queries, then a task is created per due run,
\* and the session opened at line 99 is closed at line 121
Tick ==
    /\ poller = "sleeping"
    /\ Idle
    /\ queue = <<>>
    /\ docSets' = ProcessAll(NewDocuments, docSets)
    /\ queue' = PendingRuns
    /\ tick_db_open' = FALSE
    /\ UNCHANGED <<now, flag, poller, promptSets, uncaught, results_rows, documents, runs,
                   results, feedback, statusBy, task,
                   schedulerVars, selectionVars, promptManagerVars>>

\* mutant of TickRaise: the exception ends the while loop
TickRaiseEndsLoop(evaluated, launched) ==
    /\ poller = "sleeping"
    /\ Idle
    /\ queue = <<>>
    /\ evaluated \in 0..Len(NewDocuments)
    /\ launched \in 0..Len(PendingRuns)
    /\ (evaluated < Len(NewDocuments) => launched = 0)
    /\ docSets' = ProcessAll(SubSeq(NewDocuments, 1, evaluated), docSets)
    /\ queue' = SubSeq(PendingRuns, 1, launched)
    /\ poller' = "stopped"
    /\ tick_db_open' \in (IF evaluated = 0 /\ launched = 0 THEN {tick_db_open, TRUE} ELSE {TRUE})
    /\ UNCHANGED <<now, flag, promptSets, uncaught, results_rows, documents, runs, results, feedback,
                   statusBy, task, schedulerVars, selectionVars, promptManagerVars>>

\* a tick in which a statement of lines 99-121 raises: the documents evaluated
\* and the tasks created before it stay, the handler of line 122 logs the
\* exception and the loop goes on to its sleep.  db.close() of line 121 is
\* inside the try and is skipped: the session stays open, unless the statement
\* that raised is line 99 itself, which leaves `db` bound as it was
TickRaise(evaluated, launched) ==
    /\ poller = "sleeping"
    /\ Idle
    /\ queue = <<>>
    /\ evaluated \in 0..Len(NewDocuments)
    /\ launched \in 0..Len(PendingRuns)
    /\ (evaluated < Len(NewDocuments) => launched = 0)
    /\ docSets' = ProcessAll(SubSeq(NewDocuments, 1, evaluated), docSets)
    /\ queue' = SubSeq(PendingRuns, 1, launched)
    /\ poller' = "sleeping"
    /\ tick_db_open' \in (IF evaluated = 0 /\ launched = 0 THEN {tick_db_open, TRUE} ELSE {TRUE})
    /\ UNCHANGED <<now, flag, promptSets, uncaught, results_rows, documents, runs, results, feedback,
                   statusBy, task, schedulerVars, selectionVars, promptManagerVars>>

\* mutant of TaskStart: the task enters its loop without the commit of 'running'
TaskStartWithoutCommit ==
    /\ Idle
    /\ queue # <<>>
    /\ task' = [pc |-> "loop", run |-> Head(queue), k |-> 0, success |-> TRUE]
    /\ queue' = Tail(queue)
    /\ UNCHANGED <<now, frameVars, documents, docSets, runs, statusBy, results, feedback,
                   schedulerVars, selectionVars, promptManagerVars>>

\* process_batch_run, lines 36-44: the run is loaded, marked running, committed
TaskStart ==
    /\ Idle
    /\ queue # <<>>
    /\ LET r == Head(queue) IN
        /\ runs' = [runs EXCEPT ![r].status = "running"]
        /\ statusBy' = [statusBy EXCEPT ![r] = "process_batch_run"]
        /\ task' = [pc |-> "loop", run |-> r, k |-> 0, success |-> TRUE]
    /\ queue' = Tail(queue)
    /\ UNCHANGED <<now, frameVars, documents, docSets, results, feedback,
                   schedulerVars, selectionVars, promptManagerVars>>

\* process_batch_run, line 38 raises: batch_run is unbound in the handler of
\* line 58, which raises in turn; the task ends and the run is untouched
TaskRaiseAtLoad ==
    /\ Idle
    /\ queue # <<>>
    /\ queue' = Tail(queue)
    /\ UNCHANGED <<now, frameVars, dbVars, task, schedulerVars, selectionVars, promptManagerVars>>

\* the list a relationship yields when it is loaded: the rows of the
\* association table joined to their objects, each object once (the loader
\* makes the rows unique by identity), in the order of the rows
Unique(seq) ==
    LET first == {i \in 1..Len(seq) : \A j \in 1..(i - 1) : seq[j] # seq[i]} IN
    IF Cardinality(first) = Len(seq) THEN seq
    ELSE [k \in 1..Cardinality(first) |->
            seq[CHOOSE i \in first : Cardinality({j \in first : j <= i}) = k]]

\* mutant of LoadedDocuments: one entry per row of document_batch
LoadedDocumentsPerRow(r) == runs[r].documents

\* batch_run.documents as process_batch_run reads it at line 47
LoadedDocuments(r) == Unique(runs[r].documents)

\* mutant of PairDoc: the document changes with every pair
PairDocAlternating(r, k) == LoadedDocuments(r)[(k % Len(LoadedDocuments(r))) + 1]

\* the pairs of a run in the order of the nested loops of lines 47-48
NumPairs(r) == Len(LoadedDocuments(r)) * Len(runs[r].prompts)
PairDoc(r, k) == LoadedDocuments(r)[(k \div Len(runs[r].prompts)) + 1]
PairPrompt(r, k) == runs[r].prompts[(k % Len(runs[r].prompts)) + 1]

\* the row process_document_with_prompt adds
NewResult(r, d, p) == [batch_run_id |-> r, document_id |-> d, prompt_id |-> p]

\* the pairs of the executing task that returned False so far
FailedPairs == task.k - Cardinality(ResultsOf(task.run))

\* mutant of TaskPair: a failed pair ends the loop (break)
TaskPairBreakOnFailure ==
    /\ task.pc = "loop"
    /\ task.k < NumPairs(task.run)
    /\ \E ok \in BOOLEAN :
        /\ (ok \/ FailedPairs < MaxFailures)
        /\ results' = IF ok
                      THEN Append(results, NewResult(task.run, PairDoc(task.run, task.k),
                                                     PairPrompt(task.run, task.k)))
                      ELSE results
        /\ task' = [task EXCEPT !.k = IF ok THEN @ + 1 ELSE NumPairs(task.run),
                                 !.success = @ /\ ok]
    /\ UNCHANGED <<now, frameVars, documents, docSets, runs, feedback, statusBy, queue,
                   schedulerVars, selectionVars, promptManagerVars>>

\* one iteration of lines 48-51: process_document_with_prompt commits a Result
\* and returns True, or catches its exception and returns False (at most
\* MaxFailures times per run)
TaskPair ==
    /\ task.pc = "loop"
    /\ task.k < NumPairs(task.run)
    /\ \E ok \in BOOLEAN :
        /\ (ok \/ FailedPairs < MaxFailures)
        /\ results' = IF ok
                      THEN Append(results, NewResult(task.run, PairDoc(task.run, task.k),
                                                     PairPrompt(task.run, task.k)))
                      ELSE results
        /\ task' = [task EXCEPT !.k = @ + 1, !.success = @ /\ ok]
    /\ UNCHANGED <<now, frameVars, documents, docSets, runs, feedback, statusBy, queue,
                   schedulerVars, selectionVars, promptManagerVars>>

\* mutant of FinalStatus: the outcome of the pairs is ignored
FinalStatusAlwaysCompleted(success) == "completed"

\* line 53: the status the loop's outcome gives
FinalStatus(success) == IF success THEN "completed" ELSE "failed"

\* lines 53-55 and the finally clause
TaskFinish ==
    /\ task.pc = "loop"
    /\ task.k = NumPairs(task.run)
    /\ runs' = [runs EXCEPT ![task.run].status = FinalStatus(task.success),
                            ![task.run].completed_at = now]
    /\ statusBy' = [statusBy EXCEPT ![task.run] = "process_batch_run"]
    /\ task' = IdleTask
    /\ UNCHANGED <<now, frameVars, documents, docSets, results, feedback, queue,
                   schedulerVars, selectionVars, promptManagerVars>>

\* lines 58-62: an exception inside the loop (lazy load of the run's lists)
\* reaches the handler, which marks the run failed
TaskExcept ==
    /\ task.pc = "loop"
    /\ (task.k < NumPairs(task.run) \/ task.k = 0)
    /\ runs' = [runs EXCEPT ![task.run].status = "failed",
                            ![task.run].completed_at = now]
    /\ statusBy' = [statusBy EXCEPT ![task.run] = "process_batch_run"]
    /\ task' = IdleTask
    /\ UNCHANGED <<now, frameVars, documents, docSets, results, feedback, queue,
                   schedulerVars, selectionVars, promptManagerVars>>


\* --------------------------------------------------------- BatchRunScheduler
\* get_batch_runs as the actions template shows it: the rows whose rendered
\* status is 'pending_approval' carry the Approve and Reject buttons
ApprovableRows(rs) == {r \in 1..Len(rs) : rs[r].status = "pending_approval"}

\* update_runs (status filter change, or a page load building the table)
UpdateRuns ==
    /\ Idle
    /\ runs_table' = ApprovableRows(runs)
    /\ UNCHANGED <<now, frameVars, dbVars, pollerVars, current_run_id, selectionVars, promptManagerVars>>

\* show_approve_dialog / show_reject_dialog: a button of a rendered row
ShowDialog(r) ==
    /\ Idle
    /\ r \in runs_table
    /\ current_run_id' = r
    /\ UNCHANGED <<now, frameVars, dbVars, pollerVars, runs_table, selectionVars, promptManagerVars>>

\* mutant of ApproveRun: the check of the schedule time is missing
ApproveRunWithoutTime(schedule_time) ==
    /\ Idle
    /\ IF current_run_id \notin RunIds
       THEN UNCHANGED <<runs, statusBy, runs_table>>
       ELSE LET after == [runs EXCEPT ![current_run_id].status = "approved",
                                      ![current_run_id].scheduled_for = schedule_time]
            IN /\ runs' = after
               /\ statusBy' = [statusBy EXCEPT ![current_run_id] = "approve_run"]
               /\ runs_table' = ApprovableRows(after)
    /\ UNCHANGED <<now, frameVars, documents, docSets, results, feedback, pollerVars,
                   current_run_id, selectionVars, promptManagerVars>>

\* approve_run with the value of the schedule_time input (NoTime: empty)
ApproveRun(schedule_time) ==
    /\ Idle
    /\ IF schedule_time = NoTime \/ current_run_id \notin RunIds
       THEN UNCHANGED <<runs, statusBy, runs_table>>
       ELSE LET after == [runs EXCEPT ![current_run_id].status = "approved",
                                      ![current_run_id].scheduled_for = schedule_time]
            IN /\ runs' = after
               /\ statusBy' = [statusBy EXCEPT ![current_run_id] = "approve_run"]
               /\ runs_table' = ApprovableRows(after)
    /\ UNCHANGED <<now, frameVars, documents, docSets, results, feedback, pollerVars,
                   current_run_id, selectionVars, promptManagerVars>>

\* reject_run with the value of the reject_reason input (FALSE: empty)
RejectRun(has_reason) ==
    /\ Idle
    /\ IF ~has_reason \/ current_run_id \notin RunIds
       THEN UNCHANGED <<runs, statusBy, runs_table>>
       ELSE LET after == [runs EXCEPT ![current_run_id].status = "rejected"]
            IN /\ runs' = after
               /\ statusBy' = [statusBy EXCEPT ![current_run_id] = "reject_run"]
               /\ runs_table' = ApprovableRows(after)
    /\ UNCHANGED <<now, frameVars, documents, docSets, results, feedback, pollerVars,
                   current_run_id, selectionVars, promptManagerVars>>

\* --------------------------------------------------- SharedState, DocumentViewer
\* DocumentViewer.handle_selection -> SharedState.update_selection for one row
HandleSelection(d, added) ==
    /\ Idle
    /\ selected_documents' = IF added THEN selected_documents \cup {d}
                             ELSE selected_documents \ {d}
    /\ selected_document_details' = IF added THEN selected_document_details \cup {d}
                                    ELSE selected_document_details \ {d}
    /\ UNCHANGED <<now, frameVars, dbVars, pollerVars, schedulerVars, promptManagerVars>>

\* SharedState.clear_selection
ClearSelection ==
    /\ Idle
    /\ selected_documents' = {}
    /\ selected_document_details' = {}
    /\ UNCHANGED <<now, frameVars, dbVars, pollerVars, schedulerVars, promptManagerVars>>

\* DocumentViewer.view_set: the shared id set is replaced, the details are not
ViewSet(s) ==
    /\ Idle
    /\ s \in SetIds
    /\ selected_documents' = SeqToSet(docSets[s].documents)
    /\ UNCHANGED <<now, frameVars, dbVars, pollerVars, schedulerVars, selected_document_details,
                   promptManagerVars>>


\* rows of `Document.id.in_(ids)` in primary-key order
DocRows(ids) == SortedSeq(ids \cap Docs)

\* DocumentViewer.create_set with the dialog's inputs (has_query: all three
\* query inputs are filled)
CreateSet(has_name, has_query, query) ==
    /\ Idle
    /\ Len(docSets) < MaxSets
    /\ IF ~has_name
       THEN UNCHANGED docSets
       ELSE docSets' = Append(docSets,
                [documents |-> DocRows(selected_documents),
                 queries |-> IF has_query THEN <<query>> ELSE <<>>])
    /\ UNCHANGED <<now, frameVars, documents, runs, results, feedback, statusBy, pollerVars,
                   schedulerVars, selectionVars, promptManagerVars>>

\* lines 438-440 of add_to_set for one set: the selected rows not yet in it
RECURSIVE AppendMissing(_, _)
AppendMissing(docList, ds) ==
    IF ds = <<>> THEN docList
    ELSE AppendMissing(IF InList(Head(ds), docList) THEN docList
                       ELSE Append(docList, Head(ds)),
                       Tail(ds))

\* mutant of AddToSet: the list is assigned instead of extended
AddToSetAssigning(set_ids) ==
    /\ Idle
    /\ docSets' = [s \in SetIds |->
                    IF s \in set_ids
                    THEN [docSets[s] EXCEPT !.documents = DocRows(selected_documents)]
                    ELSE docSets[s]]
    /\ UNCHANGED <<now, frameVars, documents, runs, results, feedback, statusBy, pollerVars,
                   schedulerVars, selectionVars, promptManagerVars>>

\* DocumentViewer.add_to_set with the value of set_selector
AddToSet(set_ids) ==
    /\ Idle
    /\ docSets' = [s \in SetIds |->
                    IF s \in set_ids
                    THEN [docSets[s] EXCEPT
                            !.documents = AppendMissing(@, DocRows(selected_documents))]
                    ELSE docSets[s]]
    /\ UNCHANGED <<now, frameVars, documents, runs, results, feedback, statusBy, pollerVars,
                   schedulerVars, selectionVars, promptManagerVars>>

\* process_document_queries applied to one document
EvaluateDocument(d) ==
    /\ Idle
    /\ docSets' = ProcessDocumentQueries(d, docSets)
    /\ UNCHANGED <<now, frameVars, documents, runs, results, feedback, statusBy, pollerVars,
                   schedulerVars, selectionVars, promptManagerVars>>

\* ------------------------------------------------------------- PromptManager
\* lines 832-834 of submit_batch_request: the lists of the selected sets, in turn
RECURSIVE ConcatDocuments(_)
ConcatDocuments(set_ids) ==
    IF set_ids = <<>> THEN <<>>
    ELSE docSets[Head(set_ids)].documents \o ConcatDocuments(Tail(set_ids))

\* PromptManager.submit_batch_request with the dialog's inputs
SubmitBatchRequest(has_name, doc_set_selection, prompt_selection) ==
    /\ Idle
    /\ Len(runs) < MaxRuns
    /\ IF ~has_name \/ doc_set_selection = {} \/ prompt_selection = {}
       THEN UNCHANGED <<runs, statusBy>>
       ELSE /\ runs' = Append(runs,
                [status |-> "pending_approval",
                 scheduled_for |-> NoTime,
                 completed_at |-> NoTime,
                 documents |-> ConcatDocuments(SortedSeq(doc_set_selection)),
                 prompts |-> SortedSeq(prompt_selection)])
            /\ statusBy' = Append(statusBy, "submit_batch_request")
    /\ UNCHANGED <<now, frameVars, documents, docSets, results, feedback, pollerVars,
                   schedulerVars, selectionVars, promptManagerVars>>

\* the entries run_prompts stores, document-major (lines 886-912)
RECURSIVE PairsOf(_, _)
PairsOf(ds, ps) ==
    IF ds = <<>> THEN <<>>
    ELSE [i \in 1..Len(ps) |-> [document_id |-> Head(ds), prompt_id |-> ps[i]]]
         \o PairsOf(Tail(ds), ps)

\* the documents the loop of line 886 reaches before line 887 raises KeyError
RECURSIVE BeforeKeyError(_)
BeforeKeyError(ds) ==
    IF ds = <<>> \/ Head(ds) \notin selected_document_details THEN <<>>
    ELSE <<Head(ds)>> \o BeforeKeyError(Tail(ds))

\* the Result rows of a list of entries for run r
ResultRows(r, entries) ==
    [i \in 1..Len(entries) |->
        [batch_run_id |-> r, document_id |-> entries[i].document_id,
         prompt_id |-> entries[i].prompt_id]]

\* mutant of RunPrompts: the results are attached to the latest existing run,
\* which is marked completed, instead of to a new temporary run
RunPromptsReusingRun(selected_prompts) ==
    /\ Idle
    /\ Len(runs) < MaxRuns
    /\ LET ds == SortedSeq(selected_documents)
           ps == SortedSeq(selected_prompts)
       IN IF selected_documents = {} \/ selected_prompts = {} \/ runs = <<>>
          THEN UNCHANGED <<runs, statusBy, results, current_results>>
          ELSE IF ~(selected_documents \subseteq selected_document_details)
          THEN /\ current_results' = PairsOf(BeforeKeyError(ds), ps)
               /\ UNCHANGED <<runs, statusBy, results>>
          ELSE /\ runs' = [runs EXCEPT ![Len(runs)].status = "completed",
                                       ![Len(runs)].completed_at = now]
               /\ statusBy' = [statusBy EXCEPT ![Len(runs)] = "run_prompts"]
               /\ results' = results \o ResultRows(Len(runs), PairsOf(ds, ps))
               /\ current_results' = PairsOf(ds, ps)
    /\ UNCHANGED <<now, frameVars, documents, docSets, feedback, pollerVars, schedulerVars,
                   selectionVars, results_to_save>>

\* PromptManager.run_prompts with the prompts selected in the table
RunPrompts(selected_prompts) ==
    /\ Idle
    /\ Len(runs) < MaxRuns
    /\ LET ds == SortedSeq(selected_documents)
           ps == SortedSeq(selected_prompts)
       IN IF selected_documents = {} \/ selected_prompts = {}
          THEN UNCHANGED <<runs, statusBy, results, current_results>>
          ELSE IF ~(selected_documents \subseteq selected_document_details)
          THEN /\ current_results' = PairsOf(BeforeKeyError(ds), ps)
               /\ UNCHANGED <<runs, statusBy, results>>
          ELSE /\ runs' = Append(runs,
                    [status |-> "completed",
                     scheduled_for |-> NoTime,
                     completed_at |-> now,
                     documents |-> ds,
                     prompts |-> ps])
               /\ statusBy' = Append(statusBy, "run_prompts")
               /\ results' = results \o ResultRows(Len(runs) + 1, PairsOf(ds, ps))
               /\ current_results' = PairsOf(ds, ps)
    /\ UNCHANGED <<now, frameVars, documents, docSets, feedback, pollerVars, schedulerVars,
                   selectionVars, results_to_save>>

\* PromptManager.show_save_dialog()
ShowSaveDialog ==
    /\ Idle
    /\ results_to_save' = current_results
    /\ UNCHANGED <<now, frameVars, dbVars, pollerVars, schedulerVars, selectionVars, current_results>>

\* PromptManager.save_results with the value of save_run_name; without
\* results_to_save line 948 raises inside the try and nothing is committed
SaveResults(has_name) ==
    /\ Idle
    /\ Len(runs) < MaxRuns
    /\ IF ~has_name \/ results_to_save = Unset
       THEN UNCHANGED <<runs, statusBy, results>>
       ELSE /\ runs' = Append(runs,
                    [status |-> "completed",
                     scheduled_for |-> NoTime,
                     completed_at |-> now,
                     documents |-> <<>>,
                     prompts |-> <<>>])
            /\ statusBy' = Append(statusBy, "save_results")
            /\ results' = results \o ResultRows(Len(runs) + 1, results_to_save)
    /\ UNCHANGED <<now, frameVars, documents, docSets, feedback, pollerVars, schedulerVars,
                   selectionVars, promptManagerVars>>

\* ------------------------------------------------------------------ feedback
\* `not self.rating_select.value`: None and 0 are both falsy; 0 stands for both
Falsy(v) == v = 0

\* mutant of StoreFeedback: the rating replaces the one the result already has
StoreFeedbackReplacing(result_id, rating) ==
    IF Falsy(rating) THEN feedback
    ELSE IF \E i \in 1..Len(feedback) : feedback[i].result_id = result_id
    THEN [i \in 1..Len(feedback) |->
            IF feedback[i].result_id = result_id
            THEN [feedback[i] EXCEPT !.rating = rating] ELSE feedback[i]]
    ELSE Append(feedback, [result_id |-> result_id, rating |-> rating])

\* submit_feedback of PromptManager and of ResultsViewer (the same body)
StoreFeedback(result_id, rating) ==
    IF Falsy(rating) THEN feedback
    ELSE Append(feedback, [result_id |-> result_id, rating |-> rating])

\* sample_data.py, lines 244-279: a completed run over all documents and
\* prompts, a Result per pair and a Feedback of rating 4 per Result
SeedRun == [status |-> "completed", scheduled_for |-> 0, completed_at |-> 0,
            documents |-> SortedSeq(Docs), prompts |-> SortedSeq(Prompts)]
SeedResults == ResultRows(1, PairsOf(SortedSeq(Docs), SortedSeq(Prompts)))
SeedRating == 4
SeedFeedback == [i \in 1..Len(SeedResults) |-> [result_id |-> i, rating |-> SeedRating]]

\* Result.feedback: the ratings of the Feedback rows of a result, in id order
RECURSIVE FeedbackOf(_, _)
FeedbackOf(result_id, rows) ==
    IF rows = <<>> THEN <<>>
    ELSE (IF Head(rows).result_id = result_id THEN <<Head(rows).rating>> ELSE <<>>)
            \o FeedbackOf(result_id, Tail(rows))

\* sum(f.rating for f in feedback_list)
RECURSIVE Sum(_)
Sum(ratings) == IF ratings = <<>> THEN 0 ELSE Head(ratings) + Sum(Tail(ratings))

\* f"{x:.2f}" of the quotient total / count: the text is held as its number
\* of hundredths, the nearest one, the even one on a tie
Format2f(total, count) ==
    LET q == (100 * total) \div count
        r == (100 * total) % count
    IN IF 2 * r > count THEN q + 1
       ELSE IF 2 * r < count THEN q
       ELSE IF q % 2 = 0 THEN q ELSE q + 1

NA == [text |-> "N/A"]

\* mutant of CalculateAverageRating: an empty list reports 0.00
CalculateAverageRatingZero(feedback_list) ==
    IF feedback_list = <<>> THEN [hundredths |-> 0]
    ELSE [hundredths |-> Format2f(Sum(feedback_list), Len(feedback_list))]

\* calculate_average_rating of PromptManager and of ResultsViewer (the same
\* body): 'N/A', or the text of the mean with two decimals
CalculateAverageRating(feedback_list) ==
    IF feedback_list = <<>> THEN NA
    ELSE [hundredths |-> Format2f(Sum(feedback_list), Len(feedback_list))]

\* ResultsViewer.get_results with no filter set: a row per Result with its
\* average rating and its number of feedback rows
GetResults(res, fb) ==
    [r \in 1..Len(res) |->
        [id |-> r,
         avg_rating |-> CalculateAverageRating(FeedbackOf(r, fb)),
         feedback_count |-> Len(FeedbackOf(r, fb))]]

\* ResultsViewer.update_results (a filter change, or clear_filters)
UpdateResultsRV ==
    /\ Idle
    /\ results_rows' = GetResults(results, feedback)
    /\ UNCHANGED <<now, flag, poller, promptSets, uncaught, tick_db_open, dbVars, pollerVars,
                   schedulerVars, selectionVars, promptManagerVars>>

\* the values tried for rating_select.value: negative, falsy, 1..5 and above
MaxRatingInput == 6
RatingInputs == -1..MaxRatingInput

\* PromptManager.submit_feedback after show_feedback_dialog(row)
SubmitFeedbackPM(result_id, rating) ==
    /\ Idle
    /\ Len(feedback) < Len(SeedFeedback) + MaxFeedback
    /\ feedback' = StoreFeedback(result_id, rating)
    /\ UNCHANGED <<now, frameVars, documents, docSets, runs, results, statusBy, pollerVars,
                   schedulerVars, selectionVars, promptManagerVars>>

\* ResultsViewer.submit_feedback after show_feedback_dialog(row); the table
\* is filled again after the commit
SubmitFeedbackRV(result_id, rating) ==
    /\ Idle
    /\ Len(feedback) < Len(SeedFeedback) + MaxFeedback
    /\ feedback' = StoreFeedback(result_id, rating)
    /\ results_rows' = IF Falsy(rating) THEN results_rows
                       ELSE GetResults(results, feedback')
    /\ UNCHANGED <<now, flag, poller, promptSets, uncaught, tick_db_open, documents, docSets, runs, results, statusBy, pollerVars,
                   schedulerVars, selectionVars, promptManagerVars>>

\* ------------------------------------------------------------ specifications
Query(t, op, v) == [query_type |-> t, operator |-> op, query_value |-> v]

\* the queries entered in the create-set dialog
QueryInputs == {Query("name", "startswith", <<"a">>),
                Query("file_type", "equals", <<"A">>)}

\* rows of table documents: name and content are NOT NULL, file_type is
\* nullable (document 1 is the row that may hold NULL)
DocTables ==
    {[d \in Docs |-> [name |-> IF d = 1 THEN <<"a", "B">> ELSE <<"b">>,
                      content |-> <<"b", "a">>,
                      file_type |-> IF d = 1 THEN ft ELSE <<"a">>]] :
        ft \in {<<"a">>, None}}

InitUi ==
    /\ runs_table = ApprovableRows(runs)
    /\ current_run_id = NoId
    /\ current_results = <<>>
    /\ results_to_save = Unset
    /\ queue = <<>>
    /\ task = IdleTask
    /\ results_rows = GetResults(results, feedback)

\* main.py, lines 1795-1799, at import: with the flag 'true',
\* start_background_processor calls asyncio.create_task, which makes the poller
\* if an event loop is running and raises RuntimeError if none is (the import
\* ends there, before ui.run); otherwise ui.run serves without a poller
Startup(loop_running) ==
    /\ poller = "import"
    /\ poller' = IF flag # "true" THEN "off"
                 ELSE IF loop_running THEN "sleeping"
                 ELSE "crashed"
    /\ UNCHANGED <<now, flag, promptSets, uncaught, results_rows, tick_db_open, dbVars, pollerVars,
                   schedulerVars, selectionVars, promptManagerVars>>

\* PromptManager.update_results as the handler of the results filters: line
\* 1208 reads self.rating_filter and line 1211 calls self.get_results, neither
\* of which PromptManager defines, outside any try block; the AttributeError
\* leaves the handler before the table is set
UpdateResultsPM ==
    /\ Idle
    /\ uncaught' = TRUE
    /\ UNCHANGED <<now, flag, poller, promptSets, results_rows, tick_db_open, dbVars, pollerVars, schedulerVars,
                   selectionVars, promptManagerVars>>

\* DocumentViewer.create_set when db.commit() of line 411 raises: there is no
\* try block, nothing is stored and the exception leaves the handler
CreateSetCommitRaises ==
    /\ Idle
    /\ Len(docSets) < MaxSets
    /\ uncaught' = TRUE
    /\ UNCHANGED <<now, flag, poller, promptSets, results_rows, tick_db_open, dbVars, pollerVars, schedulerVars,
                   selectionVars, promptManagerVars>>

\* the process dies while a task is inside its loop or waits to start, and is
\* started again: the database keeps what was committed, the tasks and the
\* page state are gone, the pages are built anew and the poller starts as it
\* did before
ProcessCrash ==
    /\ Serving
    /\ (task.pc = "loop" \/ queue # <<>>)
    /\ task' = IdleTask
    /\ queue' = <<>>
    /\ runs_table' = ApprovableRows(runs)
    /\ current_run_id' = NoId
    /\ selected_documents' = {}
    /\ selected_document_details' = {}
    /\ current_results' = <<>>
    /\ results_to_save' = Unset
    /\ results_rows' = GetResults(results, feedback)
    /\ tick_db_open' = FALSE
    /\ UNCHANGED <<now, flag, poller, promptSets, uncaught, dbVars>>


\* sample_data.py, lines 229-240: prompt sets are seeded with members and
\* without queries
SeedPromptSets == <<[prompts |-> <<1>>, queries |-> <<>>]>>

\* the application serves requests and the poller sleeps between two ticks
InitServing ==
    /\ flag = "true"
    /\ poller = "sleeping"
    /\ promptSets = SeedPromptSets
    /\ uncaught = FALSE
    /\ tick_db_open = FALSE

NoSelection ==
    /\ selected_documents = {}
    /\ selected_document_details = {}

\* the batch-run lifecycle: one run of document 1 and every prompt, waiting
\* for the poller or for the admin (runs of several documents: InitOverlap)
InitRuns ==
    {[status |-> st, scheduled_for |-> t, completed_at |-> NoTime,
      documents |-> <<1>>, prompts |-> ps] :
        st \in {"pending", "pending_approval"}, t \in Times,
        ps \in {SortedSeq(Prompts)}}

Init ==
    /\ now = 0
    /\ documents \in {dt \in DocTables : \A d \in Docs : dt[d].file_type # None}
    /\ docSets = <<[documents |-> SortedSeq(Docs),
                    queries |-> <<Query("name", "contains", <<"B">>)>>]>>
    /\ \E run \in InitRuns : runs = <<run>>
    /\ statusBy = <<"seed">>
    /\ results = <<>>
    /\ feedback = <<>>
    /\ InitUi
    /\ InitServing
    /\ selected_documents = {1}
    /\ selected_document_details = {1}

Next ==
    \/ AdvanceClock
    \/ Tick
    \/ TaskStart
    \/ TaskRaiseAtLoad
    \/ TaskPair
    \/ TaskFinish
    \/ TaskExcept
    \/ UpdateRuns
    \/ \E r \in RunIds : ShowDialog(r)
    \/ \E t \in Times \cup {NoTime} : ApproveRun(t)
    \/ \E has_reason \in BOOLEAN : RejectRun(has_reason)
    \/ \E has_name \in BOOLEAN : \E ss \in SUBSET SetIds : \E ps \in {{}, Prompts} :
            SubmitBatchRequest(has_name, ss, ps)
    \/ \E ps \in {{}, Prompts} : RunPrompts(ps)
    \/ ShowSaveDialog
    \/ \E has_name \in BOOLEAN : SaveResults(has_name)

Spec == Init /\ [][Next]_vars

\* manual runs: the shared selection, run_prompts and the save dialog
InitManual ==
    /\ now = 0
    /\ documents \in {dt \in DocTables : \A d \in Docs : dt[d].file_type # None}
    /\ docSets = <<[documents |-> <<1>>, queries |-> <<>>]>>
    /\ runs = <<>>
    /\ statusBy = <<>>
    /\ results = <<>>
    /\ feedback = <<>>
    /\ InitUi
    /\ InitServing
    /\ NoSelection

NextManual ==
    \/ \E d \in Docs : \E added \in BOOLEAN : HandleSelection(d, added)
    \/ ClearSelection
    \/ \E s \in SetIds : ViewSet(s)
    \/ \E ps \in SUBSET Prompts : RunPrompts(ps)
    \/ ShowSaveDialog
    \/ \E has_name \in BOOLEAN : SaveResults(has_name)

SpecManual == InitManual /\ [][NextManual]_vars

\* set membership: the evaluator, the tick and the set dialogs, from any
\* selection made in the documents table
InitSets ==
    /\ now = 0
    /\ documents \in DocTables
    /\ \E ds \in {<<>>, <<1>>} : \E qs \in {<<>>, <<Query("name", "contains", <<"B">>),
                                                   Query("name", "endswith", <<"b">>)>>} :
            docSets = <<[documents |-> ds, queries |-> qs]>>
    /\ runs = <<>>
    /\ statusBy = <<>>
    /\ results = <<>>
    /\ feedback = <<>>
    /\ InitUi
    /\ InitServing
    /\ \E sel \in {{}, {1}, Docs} :
            selected_documents = sel /\ selected_document_details = sel

NextSets ==
    \/ Tick
    \/ \E d \in Docs : EvaluateDocument(d)
    \/ \E has_name \in BOOLEAN : \E has_query \in BOOLEAN : \E q \in QueryInputs :
            CreateSet(has_name, has_query, q)
    \/ \E ss \in SUBSET SetIds : AddToSet(ss)
    \/ \E s \in SetIds : ViewSet(s)

SpecSets == InitSets /\ [][NextSets]_vars

\* feedback on the results of a seeded run
InitFeedback ==
    /\ now = 0
    /\ documents \in {dt \in DocTables : \A d \in Docs : dt[d].file_type # None}
    /\ docSets = <<>>
    /\ runs = <<SeedRun>>
    /\ statusBy = <<"seed">>
    /\ results = SeedResults
    /\ feedback = SeedFeedback
    /\ InitUi
    /\ InitServing
    /\ NoSelection

NextFeedback ==
    \/ \E r \in ResultIds \cup {NoId} : \E rating \in RatingInputs : SubmitFeedbackPM(r, rating)
    \/ \E r \in ResultIds \cup {NoId} : \E rating \in RatingInputs : SubmitFeedbackRV(r, rating)

SpecFeedback == InitFeedback /\ [][NextFeedback]_vars


\* the poller and the admin: two runs and two unassigned documents, ticks that
\* raise, tasks that fail or raise, and a crash of the process
InitPoller ==
    /\ now = 0
    /\ documents \in {dt \in DocTables : \A d \in Docs : dt[d].file_type # None}
    /\ docSets = <<[documents |-> <<>>, queries |-> <<Query("content", "contains", <<"A">>)>>]>>
    /\ \E t \in Times : \E st \in {"pending", "pending_approval"} :
            runs = [r \in 1..2 |-> [status |-> IF r = 1 THEN "pending" ELSE st,
                                    scheduled_for |-> IF r = 1 THEN 0 ELSE t,
                                    completed_at |-> NoTime,
                                    documents |-> <<r>>,
                                    prompts |-> SortedSeq(Prompts)]]
    /\ statusBy = <<"seed", "seed">>
    /\ results = <<>>
    /\ feedback = <<>>
    /\ InitUi
    /\ InitServing
    /\ NoSelection

TaskStep == TaskStart \/ TaskRaiseAtLoad \/ TaskPair \/ TaskFinish \/ TaskExcept

NextPoller ==
    \/ AdvanceClock
    \/ Tick
    \/ \E evaluated \in 0..NumDocs : \E launched \in 0..MaxRuns : TickRaise(evaluated, launched)
    \/ TaskStart
    \/ TaskRaiseAtLoad
    \/ TaskPair
    \/ TaskFinish
    \/ TaskExcept
    \/ ProcessCrash
    \/ UpdateRuns
    \/ \E r \in RunIds : ShowDialog(r)
    \/ \E t \in Times \cup {NoTime} : ApproveRun(t)
    \/ \E has_reason \in BOOLEAN : RejectRun(has_reason)

SpecPoller == InitPoller /\ [][NextPoller]_vars

\* the event loop runs every task that is ready
SpecPollerFair == SpecPoller /\ WF_vars(TaskStep)


\* the event handlers of the pages, those without a try block included
NextHandlers ==
    \/ \E d \in Docs : \E added \in BOOLEAN : HandleSelection(d, added)
    \/ \E has_name \in BOOLEAN : \E has_query \in BOOLEAN : \E q \in QueryInputs :
            CreateSet(has_name, has_query, q)
    \/ CreateSetCommitRaises
    \/ \E ss \in SUBSET SetIds : AddToSet(ss)
    \/ \E s \in SetIds : ViewSet(s)
    \/ \E ps \in {{}, Prompts} : RunPrompts(ps)
    \/ UpdateRuns
    \/ UpdateResultsPM

SpecHandlers == InitManual /\ [][NextHandlers]_vars


\* the rows of results and feedback: the seeded run with its results and
\* feedback, possibly a second run waiting for the poller, and every operation
\* that writes a Result or a Feedback
RowsRatings == {0, 1, 5, MaxRatingInput}

InitRows ==
    /\ now = 0
    /\ documents \in {dt \in DocTables : \A d \in Docs : dt[d].file_type # None}
    /\ docSets = <<>>
    /\ \E waiting \in BOOLEAN :
        /\ runs = IF waiting
                  THEN <<SeedRun, [status |-> "pending", scheduled_for |-> 0,
                                   completed_at |-> NoTime,
                                   documents |-> <<1>>, prompts |-> <<1>>]>>
                  ELSE <<SeedRun>>
        /\ statusBy = [r \in 1..Len(runs) |-> "seed"]
    /\ results = SeedResults
    /\ feedback = SeedFeedback
    /\ InitUi
    /\ InitServing
    /\ selected_documents = {1}
    /\ selected_document_details = {1}

NextRows ==
    \/ Tick
    \/ TaskStart
    \/ TaskPair
    \/ TaskFinish
    \/ RunPrompts(Prompts)
    \/ ShowSaveDialog
    \/ SaveResults(TRUE)
    \/ \E r \in {1, 2} : \E rating \in RowsRatings : SubmitFeedbackPM(r, rating)
    \/ \E r \in {1, 2} : \E rating \in RowsRatings : SubmitFeedbackRV(r, rating)
    \/ UpdateResultsRV

SpecRows == InitRows /\ [][NextRows]_vars


\* the evaluator on its own: a document name and a stored query of every
\* operator, one the evaluator does not know included, over all short strings
MaxStrLen == 2
Chars == {"a", "A", "b"}
Strings == UNION {[1..n -> Chars] : n \in 0..MaxStrLen}

InitMatch ==
    /\ now = 0
    /\ \E v \in Strings \ {<<>>} :
            documents = [d \in Docs |-> [name |-> IF d = 1 THEN v ELSE <<"b">>,
                                         content |-> <<"b", "a">>,
                                         file_type |-> <<"a">>]]
    /\ \E op \in Operators \cup {"regex"} : \E q \in Strings :
            docSets = <<[documents |-> <<>>, queries |-> <<Query("name", op, q)>>]>>
    /\ runs = <<>>
    /\ statusBy = <<>>
    /\ results = <<>>
    /\ feedback = <<>>
    /\ InitUi
    /\ InitServing
    /\ NoSelection

NextMatch ==
    \/ Tick
    \/ \E d \in Docs : EvaluateDocument(d)

SpecMatch == InitMatch /\ [][NextMatch]_vars


\* start-up: the value of ENABLE_BATCH_PROCESSOR ("absent": the variable is
\* not set), then the poller, its tasks and two handlers, over a database with
\* a due run and documents that match a stored query
FlagValues == {"true", "True", "false", "absent"}

InitStartup ==
    /\ now = 0
    /\ documents \in {dt \in DocTables : \A d \in Docs : dt[d].file_type # None}
    /\ docSets = <<[documents |-> <<>>, queries |-> <<Query("content", "contains", <<"A">>)>>]>>
    /\ \E t \in Times :
            runs = <<[status |-> "pending", scheduled_for |-> t, completed_at |-> NoTime,
                     documents |-> <<1>>, prompts |-> SortedSeq(Prompts)]>>
    /\ statusBy = <<"seed">>
    /\ results = <<>>
    /\ feedback = <<>>
    /\ InitUi
    /\ flag \in FlagValues
    /\ poller = "import"
    /\ promptSets = SeedPromptSets
    /\ uncaught = FALSE
    /\ tick_db_open = FALSE
    /\ selected_documents = {1}
    /\ selected_document_details = {1}

NextStartup ==
    \/ \E loop_running \in BOOLEAN : Startup(loop_running)
    \/ AdvanceClock
    \/ Tick
    \/ TaskStart
    \/ TaskRaiseAtLoad
    \/ TaskPair
    \/ TaskFinish
    \/ TaskExcept
    \/ \E ss \in SUBSET SetIds : AddToSet(ss)
    \/ \E ps \in {{}, Prompts} : RunPrompts(ps)

SpecStartup == InitStartup /\ [][NextStartup]_vars


\* prompts and their sets: table prompts as seeded, and table prompt_sets as
\* seeded or with a PromptQuery row (models.py declares the table; no handler
\* writes it, so such a row was stored in the database file by other means)
PromptTable == [p \in Prompts |-> [name |-> IF p = 1 THEN <<"a">> ELSE <<"b", "A">>,
                                   content |-> <<"b">>]]

InitPrompts ==
    /\ now = 0
    /\ documents \in DocTables
    /\ \E ds \in {<<>>, <<1>>} :
            docSets = <<[documents |-> ds,
                        queries |-> <<Query("name", "contains", <<"B">>)>>]>>
    /\ runs = <<>>
    /\ statusBy = <<>>
    /\ results = <<>>
    /\ feedback = <<>>
    /\ InitUi
    /\ flag = "true"
    /\ poller = "sleeping"
    /\ \E qs \in {<<>>, <<Query("name", "contains", <<"A">>)>>} :
            promptSets = <<[prompts |-> <<1>>, queries |-> qs]>>
    /\ uncaught = FALSE
    /\ tick_db_open = FALSE
    /\ \E sel \in {{}, {1}, Docs} :
            selected_documents = sel /\ selected_document_details = sel

NextPrompts ==
    \/ Tick
    \/ \E has_name \in BOOLEAN : \E has_query \in BOOLEAN : \E q \in QueryInputs :
            CreateSet(has_name, has_query, q)
    \/ \E ss \in SUBSET SetIds : AddToSet(ss)
    \/ \E s \in SetIds : ViewSet(s)

SpecPrompts == InitPrompts /\ [][NextPrompts]_vars


C2_RejectedIsFinal ==
    [][\A r \in RunIds : runs[r].status = "rejected" => runs'[r].status = "rejected"]_vars

\* the arrows of the chain of section 3
ChainArrows ==
    {<<"pending", "pending_approval">>, <<"pending_approval", "approved">>,
     <<"pending_approval", "rejected">>, <<"approved", "running">>,
     <<"running", "completed">>, <<"running", "failed">>}

\* C3: every change of a run's status is one arrow of the chain
\* pending -> pending_approval -> approved/rejected -> running -> completed/failed.
\* The poller takes a run from 'pending' straight to 'running'.
C3_StatusFollowsChain ==
    [][\A r \in RunIds :
         runs'[r].status # runs[r].status =>
            <<runs[r].status, runs'[r].status>> \in ChainArrows]_vars


\* C4: after process_document_queries has run over a document d, d is exactly
\* once in the set of every saved query it matches.  When a query of another
\* set raises on d (a NULL field), the call is rolled back and d is in no set.
C4_MatchedDocumentInSetOnce ==
    [][\A d \in Docs :
         (EvaluateDocument(d) \/ (Tick /\ InList(d, NewDocuments))) =>
            \A s \in SetIds : \A i \in 1..Len(docSets[s].queries) :
                Matches(documents[d], docSets[s].queries[i]) =>
                    CountIn(d, docSets'[s].documents) = 1]_vars

\* C5: every stored Feedback row has a rating between 1 and 5.  submit_feedback
\* rejects only a falsy rating.
C5_RatingInRange ==
    \A i \in 1..Len(feedback) : feedback[i].rating \in 1..5

\* a run is due: 'pending' with a scheduled time at or before now
Due(r) ==
    /\ runs[r].status = "pending"
    /\ runs[r].scheduled_for # NoTime
    /\ runs[r].scheduled_for <= now

\* C6: a tick launches process_batch_run for exactly the runs that are
\* 'pending' and scheduled at or before now, and a run enters 'running' only
\* from 'pending' and not before its scheduled time.  (A tick writes queue
\* and docSets only: one that changes neither is a stuttering step.)
C6_LaunchIffPendingAndDue ==
    [][/\ ((queue' # queue \/ docSets' # docSets) /\ Tick)
            => \A r \in RunIds : InList(r, queue') <=> Due(r)
       /\ \A r \in RunIds :
            (runs'[r].status = "running" /\ runs[r].status # "running") => Due(r)]_vars

\* a run scheduled after the start was launched when its time had come
C6_Witness ==
    /\ task.pc = "loop"
    /\ runs[task.run].status = "running"
    /\ runs[task.run].scheduled_for = now
    /\ now > 0

StatusWriter ==
    \/ TaskStart
    \/ TaskFinish
    \/ TaskExcept
    \/ \E t \in Times : ApproveRun(t)
    \/ RejectRun(TRUE)

C10_MembershipMonotone ==
    [][\A s \in SetIds : \A d \in Docs :
         InList(d, docSets[s].documents) =>
            (s \in 1..Len(docSets') /\ InList(d, docSets'[s].documents))]_vars

\* a set that gained a member by query evaluation and one by add_to_set
C10_Witness ==
    \E s \in SetIds :
        /\ Len(docSets[s].documents) = NumDocs
        /\ Len(docSets) = MaxSets
        /\ selected_documents # SeqToSet(docSets[s].documents)

\* C11: the poller is alive in every state, whatever raised inside a tick or
\* inside a launched run, and again and again it is at the point where its
\* next tick runs
C11_PollerNeverTerminates ==
    /\ [](poller = "sleeping")
    /\ []<>(poller = "sleeping" /\ Idle /\ queue = <<>>)

\* a tick raised after it evaluated the first of two unassigned documents, and
\* the poller is at its sleep
C11_Witness ==
    /\ poller = "sleeping"
    /\ Len(docSets) = 1
    /\ docSets[1].documents = <<1>>
    /\ SetsOf(2) = {}
    /\ Matches(documents[2], docSets[1].queries[1])

\* a run marked running whose task is neither executing nor waiting to start
Stuck(r) ==
    /\ runs[r].status = "running"
    /\ task.run # r
    /\ ~InList(r, queue)

\* C12: a run left in 'running' by a crash keeps that status and its Result
\* rows in every step, and no step makes a task for it
C12_CrashedRunStaysRunning ==
    [][\A r \in RunIds :
         Stuck(r) =>
            /\ runs'[r] = runs[r]
            /\ task'.run # r
            /\ ~InList(r, queue')
            /\ \A i \in ResultsOf(r) : i <= Len(results') /\ results'[i] = results[i]]_vars

\* the process died after the first pair of run 1 was committed, and the
\* other run has been launched and completed since
C12_Witness ==
    /\ Stuck(1)
    /\ Cardinality(ResultsOf(1)) = 1
    /\ runs[2].status = "completed"
    /\ poller = "sleeping"

\* C13: in every state, the sets a tick would leave (when none of its
\* evaluations raises) hold each unassigned document in the set of every query
\* it matches, and hold the assigned documents exactly where they were
C13_TickEvaluatesUnassigned ==
    LET after == ProcessAll(NewDocuments, docSets) IN
    (\A d \in Docs : SetsOf(d) = {} => ~EvaluationRaises(d, docSets)) =>
        /\ \A d \in Docs : SetsOf(d) = {} =>
                \A s \in SetIds : \A i \in 1..Len(docSets[s].queries) :
                    Matches(documents[d], docSets[s].queries[i])
                        => InList(d, after[s].documents)
        /\ \A d \in Docs : SetsOf(d) # {} =>
                \A s \in SetIds :
                    InList(d, after[s].documents) <=> InList(d, docSets[s].documents)

\* after a tick: document 2 was put in the set of the query it matches, and
\* document 1, a member of another set, was not, although it matches too
C13_Witness ==
    \E s1, s2 \in SetIds :
        /\ InList(1, docSets[s1].documents)
        /\ ~InList(1, docSets[s2].documents)
        /\ \E i \in 1..Len(docSets[s2].queries) :
                /\ Matches(documents[1], docSets[s2].queries[i])
                /\ Matches(documents[2], docSets[s2].queries[i])
        /\ SetsOf(2) = {s2}
        /\ NewDocuments = <<>>

\* C14: no exception ever leaves an event handler
C14_NoHandlerRaises == uncaught = FALSE

\* C15: every step leaves each row of results and of feedback as it was; the
\* tables only grow at their end
C15_RowsAppendOnly ==
    [][/\ Len(results') >= Len(results)
       /\ SubSeq(results', 1, Len(results)) = results
       /\ Len(feedback') >= Len(feedback)
       /\ SubSeq(feedback', 1, Len(feedback)) = feedback]_vars

\* the poller has added a result and a rating was submitted for a result that
\* already had one
C15_Witness ==
    /\ \E r \in RunIds : statusBy[r] = "process_batch_run" /\ ResultsOf(r) # {}
    /\ Len(results) > Len(SeedResults)
    /\ Len(FeedbackOf(1, feedback)) > 1

\* C16: for every result, the reported average is 'N/A' exactly when the
\* result has no feedback, and otherwise it is the mean of its ratings to the
\* two decimals shown; with all ratings in 1..5 it lies between 1.00 and 5.00
C16_AverageRating ==
    \A r \in ResultIds :
        LET ratings == FeedbackOf(r, feedback)
            shown == CalculateAverageRating(ratings)
        IN /\ shown = NA <=> ratings = <<>>
           /\ ratings # <<>> =>
                /\ DOMAIN shown = {"hundredths"}
                /\ 2 * (shown.hundredths * Len(ratings) - 100 * Sum(ratings)) <= Len(ratings)
                /\ 2 * (100 * Sum(ratings) - shown.hundredths * Len(ratings)) <= Len(ratings)
                /\ (\A i \in 1..Len(ratings) : ratings[i] \in 1..5)
                        => (100 <= shown.hundredths /\ shown.hundredths <= 500)

\* the table shows a result without feedback next to one whose three ratings
\* have a mean that is not a whole number of hundredths
C16_Witness ==
    /\ results_rows = GetResults(results, feedback)
    /\ \E r \in ResultIds : results_rows[r].avg_rating = NA
    /\ \E r \in ResultIds :
        LET ratings == FeedbackOf(r, feedback)
        IN /\ Len(ratings) = 3
           /\ (100 * Sum(ratings)) % 3 # 0
           /\ \A i \in 1..3 : ratings[i] \in 1..5
           /\ results_rows[r].avg_rating.hundredths \in 100..500

\* what each operator means on two lower-case strings: v is q between, after
\* or before some strings, or q itself
Expected(operator, v, q) ==
    IF operator = "contains"
    THEN \E i \in 0..Len(v) : \E j \in i..Len(v) :
            v = SubSeq(v, 1, i) \o q \o SubSeq(v, j + 1, Len(v))
    ELSE IF operator = "equals" THEN q = v
    ELSE IF operator = "startswith"
    THEN \E j \in 0..Len(v) : v = q \o SubSeq(v, j + 1, Len(v))
    ELSE IF operator = "endswith"
    THEN \E i \in 0..Len(v) : v = SubSeq(v, 1, i) \o q
    ELSE FALSE

\* C17: the evaluator's match of a document value and a query is the
\* operator's meaning on the two lower-cased strings, a query with any other
\* operator matches nothing, and a document is in the set only if it matches
C17_OperatorSemantics ==
    \A d \in Docs : \A s \in SetIds : \A i \in 1..Len(docSets[s].queries) :
        LET q == docSets[s].queries[i]
            v == GetAttr(documents[d], q.query_type)
        IN /\ Matches(documents[d], q) <=> Expected(q.operator, Lower(v), Lower(q.query_value))
           /\ q.operator \notin Operators => ~Matches(documents[d], q)
           /\ InList(d, docSets[s].documents) => Matches(documents[d], q)

\* the evaluator put a document with an upper-case name in the set of an
\* 'endswith' query whose value differs from the name in case and in length
C17_Witness ==
    /\ docSets[1].queries[1].operator = "endswith"
    /\ documents[1].name = <<"b", "A">>
    /\ docSets[1].queries[1].query_value = <<"a">>
    /\ InList(1, docSets[1].documents)

\* C18: once the module is imported the poller runs exactly if the flag is
\* 'true'; with any other flag no step moves a run to 'running', 'completed'
\* or 'failed' and the sets change only by add_to_set
C18_PollerIffFlag ==
    /\ [](poller # "import" => (poller = "sleeping" <=> flag = "true"))
    /\ [][flag # "true" =>
            /\ \A r \in RunIds :
                    runs'[r].status \in {"running", "completed", "failed"}
                        => runs'[r].status = runs[r].status
            /\ docSets' # docSets => \E ss \in SUBSET SetIds : AddToSet(ss)]_vars

\* C19: after a tick, every prompt that matches a stored PromptQuery is a
\* member of the query's PromptSet
C19_PromptQueriesApplied ==
    [][Tick =>
        \A s \in 1..Len(promptSets) : \A i \in 1..Len(promptSets[s].queries) :
            \A p \in Prompts :
                Matches(PromptTable[p], promptSets[s].queries[i])
                    => InList(p, promptSets'[s].prompts)]_vars

\* a step in which the task of run r ends: it raised while loading the run, or
\* it left the loop by its final update or by its exception handler
TaskEnds(r) ==
    \/ /\ task.pc = "idle"
       /\ queue # <<>>
       /\ Head(queue) = r
       /\ queue' = Tail(queue)
       /\ task'.pc = "idle"
    \/ /\ task.pc = "loop"
       /\ task.run = r
       /\ task'.pc = "idle"

\* C20: when the task of a launched run ends, the run is completed or failed
C20_LaunchedRunEnds ==
    [][\A r \in RunIds : TaskEnds(r) => runs'[r].status \in {"completed", "failed"}]_vars

\* C21: a run that approve_run approved and whose scheduled time has passed is
\* among the runs the tick's query returns, so the next tick launches it
C21_ApprovedRunIsLaunched ==
    \A r \in RunIds :
        (/\ statusBy[r] = "approve_run"
         /\ runs[r].status = "approved"
         /\ runs[r].scheduled_for # NoTime
         /\ runs[r].scheduled_for <= now)
            => InList(r, PendingRuns)

\* a task for run r was made by a tick and has not ended
Launched(r) == InList(r, queue) \/ (task.pc = "loop" /\ task.run = r)

\* C22 as claimed: when the tasks a tick made have ended, none of their runs
\* is among the runs the next tick launches
C22_NeverLaunchedAgain ==
    [][\A r \in RunIds :
         (Launched(r) /\ queue' = <<>> /\ task'.pc = "idle")
            => ~InList(r, PendingRuns')]_vars

\* C22: a run whose task has committed 'running' is never launched again: no
\* step leaves it in a new task or among the runs the next tick launches
C22_StartedRunNeverLaunchedAgain ==
    [][\A r \in RunIds :
         ((task.pc = "loop" /\ task.run = r) \/ statusBy[r] = "process_batch_run")
            => /\ ~InList(r, queue')
               /\ ~InList(r, PendingRuns')]_vars

\* the first run was processed to its end and a later tick has launched the
\* other run only
C22_Witness ==
    /\ statusBy[1] = "process_batch_run"
    /\ runs[1].status \in {"completed", "failed"}
    /\ queue = <<2>>
    /\ Due(2)

\* the place of x in a list
Pos(seq, x) == CHOOSE i \in 1..Len(seq) : seq[i] = x

\* C23: a Result row of a poller-processed run is written by a step that
\* starts and ends with the run in 'running', and the rows of such a run lie
\* in document-major order: by the document's place in the run's list, then
\* by the prompt's
C23_RunningThenPairsInOrder ==
    /\ [][\A i \in 1..Len(results') :
            LET r == results'[i].batch_run_id IN
            (i > Len(results) /\ r \in RunIds /\ statusBy[r] = "process_batch_run")
                => (runs[r].status = "running" /\ runs'[r].status = "running")]_vars
    /\ [](\A r \in RunIds : statusBy[r] = "process_batch_run" =>
            \A i, j \in ResultsOf(r) : i < j =>
                LET di == Pos(LoadedDocuments(r), results[i].document_id)
                    dj == Pos(LoadedDocuments(r), results[j].document_id)
                    pi == Pos(runs[r].prompts, results[i].prompt_id)
                    pj == Pos(runs[r].prompts, results[j].prompt_id)
                IN di < dj \/ (di = dj /\ pi < pj))

\* the poller has processed every pair of a run of several documents and
\* prompts
C23_Witness ==
    \E r \in RunIds :
        /\ statusBy[r] = "process_batch_run"
        /\ runs[r].status = "completed"
        /\ Len(LoadedDocuments(r)) = NumDocs
        /\ Len(runs[r].prompts) = NumPrompts
        /\ Cardinality(ResultsOf(r)) = NumDocs * NumPrompts

\* the poller on runs whose document rows are those submit_batch_request
\* writes for a selection of two overlapping document sets; the rows are
\* released to the poller with status 'pending', which no handler writes
OverlappingSets ==
    <<[documents |-> <<1>>, queries |-> <<>>],
      [documents |-> SortedSeq(Docs), queries |-> <<>>]>>

InitOverlap ==
    /\ now = 0
    /\ documents \in {dt \in DocTables : \A d \in Docs : dt[d].file_type # None}
    /\ docSets = OverlappingSets
    /\ \E sel \in (SUBSET {1, 2}) \ {{}} : \E ps \in (SUBSET Prompts) \ {{}} :
            runs = [r \in 1..2 |->
                      [status |-> IF r = 1 THEN "pending" ELSE "pending_approval",
                       scheduled_for |-> 0,
                       completed_at |-> NoTime,
                       documents |-> IF r = 1 THEN ConcatDocuments(SortedSeq(sel)) ELSE <<r>>,
                       prompts |-> SortedSeq(ps)]]
    /\ statusBy = <<"seed", "seed">>
    /\ results = <<>>
    /\ feedback = <<>>
    /\ InitUi
    /\ InitServing
    /\ NoSelection

SpecOverlap == InitOverlap /\ [][NextPoller]_vars

EvaluatorTables ==
    {[d \in Docs |-> [name |-> <<"b">>,
                      content |-> <<"b", "a">>,
                      file_type |-> IF d \in nulls THEN None ELSE <<"a">>]] :
        nulls \in SUBSET Docs}

InitEvaluator ==
    /\ now = 0
    /\ documents \in EvaluatorTables
    /\ \E qs \in {<<Query("name", "contains", <<"B">>), Query("file_type", "equals", <<"A">>)>>,
                  <<Query("file_type", "equals", <<"A">>), Query("name", "contains", <<"B">>)>>} :
            docSets = <<[documents |-> <<>>, queries |-> qs]>>
    /\ runs = <<>>
    /\ statusBy = <<>>
    /\ results = <<>>
    /\ feedback = <<>>
    /\ InitUi
    /\ InitServing
    /\ NoSelection

SpecEvaluator == InitEvaluator /\ [][NextSets]_vars

\* C25: in every state, the evaluation of the unassigned documents by a tick
\* and the evaluation of any one document leave a document on which some
\* query raises in exactly the sets it was in, even when a query before the
\* raising one matches it, and the tick puts every other unassigned document
\* in the sets of the queries it matches, wherever in the tick a document raises
C25_AllOrNothingPerDocument ==
    LET after == ProcessAll(NewDocuments, docSets) IN
    /\ \A d \in Docs : EvaluationRaises(d, docSets) =>
            /\ ProcessDocumentQueries(d, docSets) = docSets
            /\ \A s \in SetIds :
                    InList(d, after[s].documents) <=> InList(d, docSets[s].documents)
    /\ \A d \in Docs : (SetsOf(d) = {} /\ ~EvaluationRaises(d, docSets)) =>
            \A s \in SetIds :
                InList(d, after[s].documents) <=>
                    \E i \in 1..Len(docSets[s].queries) :
                        Matches(documents[d], docSets[s].queries[i])

\* after a tick: document 1 is in the set whose first query it matches, and
\* document 2, which matches that query too, is in no set because the set's
\* second query raises on it
C25_Witness ==
    /\ Len(docSets) = 1
    /\ docSets[1].documents = <<1>>
    /\ selected_documents = {}
    /\ Matches(documents[2], docSets[1].queries[1])
    /\ QueryRaises(documents[2], docSets[1].queries[2])
    /\ ~EvaluationRaises(1, docSets)
    /\ SetsOf(2) = {}

\* the sessions opened by the poller's tick (line 99) and by the executing
\* process_batch_run task (line 36, closed by the finally of line 64) that are
\* open
OpenHandles ==
    (IF tick_db_open THEN 1 ELSE 0) + (IF task.pc = "loop" THEN 1 ELSE 0)

\* C26: whenever the poller is at its sleep and no process_batch_run task
\* executes, every session a tick or a task opened is closed
C26_HandlesClosed == (poller = "sleeping" /\ task.pc = "idle") => OpenHandles = 0

\* C27: in every state the ids that have details are the selected ids
C27_DetailsMatchSelection == selected_document_details = selected_documents

\* the type of the last ui.notify of PromptManager.run_prompts: a warning for
\* a missing selection (lines 853-859); otherwise the handler of lines 921-922
\* reports the KeyError of line 887 or, after db.commit() of line 914, the
\* AttributeError that update_results raises at line 917
RunPromptsNotification(selected_prompts) ==
    IF selected_documents = {} \/ selected_prompts = {} THEN "warning" ELSE "negative"

\* the type of the last ui.notify of PromptManager.submit_feedback: a warning
\* for a missing rating (lines 1229-1231); otherwise 'positive' of line 1243
\* after the commit, and then 'negative' of line 1248 for the AttributeError
\* that update_results raises at line 1245
SubmitFeedbackNotification(rating) ==
    IF Falsy(rating) THEN "warning" ELSE "negative"

\* C28: a call of PromptManager.run_prompts or PromptManager.submit_feedback
\* that ends with an error notification leaves the tables of batch runs,
\* results and feedback as they were
C28_ErrorMeansNothingPersisted ==
    [][/\ \A ps \in SUBSET Prompts :
            (RunPrompts(ps) /\ RunPromptsNotification(ps) = "negative")
                => (runs' = runs /\ results' = results /\ feedback' = feedback)
       /\ \A r \in ResultIds \cup {NoId} : \A rating \in RatingInputs :
            (SubmitFeedbackPM(r, rating) /\ SubmitFeedbackNotification(rating) = "negative")
                => (runs' = runs /\ results' = results /\ feedback' = feedback)]_vars

\* the dialogs that ask for an input: a batch request, its approval or
\* rejection, and feedback on a seeded result
InitInputs ==
    /\ now = 0
    /\ documents \in {dt \in DocTables : \A d \in Docs : dt[d].file_type # None}
    /\ docSets = <<[documents |-> <<1>>, queries |-> <<>>]>>
    /\ runs = <<SeedRun>>
    /\ statusBy = <<"seed">>
    /\ results = SeedResults
    /\ feedback = SeedFeedback
    /\ InitUi
    /\ InitServing
    /\ NoSelection

NextInputs ==
    \/ AdvanceClock
    \/ \E has_name \in BOOLEAN : \E ss \in SUBSET SetIds : \E ps \in SUBSET Prompts :
            SubmitBatchRequest(has_name, ss, ps)
    \/ UpdateRuns
    \/ \E r \in RunIds : ShowDialog(r)
    \/ \E t \in Times \cup {NoTime} : ApproveRun(t)
    \/ \E has_reason \in BOOLEAN : RejectRun(has_reason)
    \/ \E rating \in {0, 5} : SubmitFeedbackRV(1, rating)

SpecInputs == InitInputs /\ [][NextInputs]_vars

\* a call with a required input missing
MissingInputCall ==
    \/ ApproveRun(NoTime)
    \/ RejectRun(FALSE)
    \/ \E ss \in SUBSET SetIds : \E ps \in SUBSET Prompts : SubmitBatchRequest(FALSE, ss, ps)
    \/ \E ps \in SUBSET Prompts : SubmitBatchRequest(TRUE, {}, ps)
    \/ \E ss \in SUBSET SetIds : SubmitBatchRequest(TRUE, ss, {})
    \/ SubmitFeedbackRV(1, 0)

\* C29: approve_run without a schedule time, reject_run without a reason,
\* submit_batch_request without a name, a document set or a prompt, and
\* submit_feedback without a rating leave the batch runs, the results and the
\* feedback as they were, and every run that approve_run approved has a
\* scheduled time
C29_MissingInputChangesNothing ==
    /\ [][MissingInputCall =>
            (runs' = runs /\ results' = results /\ feedback' = feedback)]_vars
    /\ [](\A r \in RunIds :
            (statusBy[r] = "approve_run" /\ runs[r].status = "approved")
                => runs[r].scheduled_for # NoTime)

\* a submitted run that approve_run approved for a time, its dialog's run
\* still the current one, and a feedback stored next to the seeded ones
C29_Witness ==
    \E r \in RunIds :
        /\ statusBy[r] = "approve_run"
        /\ runs[r].status = "approved"
        /\ runs[r].scheduled_for \in Times
        /\ current_run_id = r
        /\ Len(feedback) > Len(SeedFeedback)

====
